---- MODULE Spec2Model ----
(***************************************************************************)
(* Model of the trajectory (event log) of captain: src/src/trajectory.rs,  *)
(* with the vector search of src/src/search.rs and the redundancy          *)
(* detector of src/src/image_analysis.rs.                                  *)
(*                                                                         *)
(* Rust indices are 0-based and are kept 0-based in the model; At(v, i)    *)
(* reads the element a Rust v[i] reads.  An Option<T> is a sequence of     *)
(* length 0 (None) or 1 (Some).                                            *)
(***************************************************************************)
EXTENDS Integers, Sequences, FiniteSets, TLC

VARIABLES
    discard_redundant_screenshots, \* Trajectory.discard_redundant_screenshots
    events,                        \* the Vec<Event> behind Trajectory.events
    lock,                          \* holder of the events mutex: 0, or the enrichment task holding it
    calls,                         \* per handle: the call in progress, or the last call's outcome
    redundancy,                    \* the spawned redundancy tasks, in spawn order
    enrichment,                    \* the spawned enrichment tasks, in spawn order
    clock,                         \* number of screenshots captured so far (their timestamps)
    search                         \* a stand-alone dense_embedding_search call

vars == <<discard_redundant_screenshots, events, lock, calls, redundancy, enrichment, clock, search>>

----------------------------------------------------------------------------
\* Bounds of the model.

\* The log is not grown beyond MaxEvents events.
MaxEvents == 3
\* At most MaxClock screenshots are captured.
MaxClock == 2
\* The logs build_messages is applied to on its own have up to MaxBuildLog events.
MaxBuildLog == 4
\* A stand-alone search has up to MaxDocuments documents and max_results up
\* to MaxResults.
MaxDocuments == 3
MaxResults == 3
\* The image budgets of trajectory.rs:13-16 are 80 and 40; the assembly
\* algorithm is parametric in them and they are scaled down here.
MAX_NUM_IMAGES_PER_LLM_CALL == 2
MAX_NUM_EXPLICIT_RECENT_IMAGES_PER_LLM_CALL == 1
\* The pixel threshold of image_analysis.rs:21 is 1_000_000 on full-size
\* captures; images here have two pixels and the threshold is scaled down.
SIMILARITY_THRESHOLD_NUM_PIXELS == 0

MAX_NUM_RETRIEVED_IMAGES_PER_LLM_CALL ==
    MAX_NUM_IMAGES_PER_LLM_CALL - MAX_NUM_EXPLICIT_RECENT_IMAGES_PER_LLM_CALL

----------------------------------------------------------------------------
\* Values.

Handles == {"h1"}
Roles == {"System", "User", "Assistant"}
Texts == {"a"}
\* Pixel buffers of two pixels.
Images == {<<0, 0>>, <<0, 1>>, <<1, 1>>}
\* Embedding vectors the embedding collaborator may answer with: for a
\* description, for the query of a build_messages call, and for a stand-alone
\* search.
DescriptionEmbeddings == {<<1, 0>>}
Embeddings == {<<1, 0>>, <<0, 1>>}
SearchEmbeddings == {<<1, 0>>, <<0, 1>>, <<1, 1>>, <<-1, 0>>, <<0, 0>>}
Queries == {"q"}
ModelReplies == {"transport_error", "no_code_block", "bad_json", "important_true", "important_false"}

At(v, i) == v[i + 1]

\* Reverse that leaves the vector as it is.
Unreversed(s) == s

RECURSIVE Reverse(_)
Reverse(s) == IF s = <<>> THEN <<>> ELSE Append(Reverse(Tail(s)), Head(s))

\* Vec::insert(i, x): the elements at i.. shift right.
Insert(v, i, x) == SubSeq(v, 1, i) \o <<x>> \o SubSeq(v, i + 1, Len(v))

Text(role, text) == [role |-> role, content |-> [type |-> "Text", text |-> text]]

MessageEvent(m) == [kind |-> "Message", message |-> m]

ScreenshotEvent(s) ==
    [kind |-> "Screenshot", screenshot |-> s, text_description |-> <<>>,
     is_redundant |-> FALSE, text_embedding |-> <<>>]

\* Screenshot::to_llm_message(None): a User message of one image block and
\* one text block that carries the capture time.
to_llm_message(s) ==
    [role |-> "User",
     content |-> [type |-> "MultiContent", data |-> s.image, timestamp |-> s.timestamp]]

IsImage(m) == m.content.type = "MultiContent"

----------------------------------------------------------------------------
\* search.rs

Min(a, b) == IF a <= b THEN a ELSE b

RECURSIVE Dot(_, _)
\* a.iter().zip(b).map(|(a, b)| a * b).sum(): zip stops at the shorter one.
Dot(a, b) == IF a = <<>> \/ b = <<>> THEN 0 ELSE Head(a) * Head(b) + Dot(Tail(a), Tail(b))

\* cosine_distance(a, b) = dot_product / (norm_a * norm_b).sqrt(), where
\* norm_a and norm_b are the sums of squares.  The f32 quotient is kept
\* exactly, as the pair (dot, nn) that stands for dot / sqrt(nn); it is NaN
\* (0.0 / 0.0) exactly when nn = 0.
cosine_distance(a, b) == [dot |-> Dot(a, b), nn |-> Dot(a, a) * Dot(b, b)]

IsNaN(d) == d.nn = 0

\* x < y for two distances that are not NaN.
Less(x, y) ==
    IF x.dot >= 0 /\ y.dot >= 0 THEN x.dot * x.dot * y.nn < y.dot * y.dot * x.nn
    ELSE IF x.dot < 0 /\ y.dot < 0 THEN x.dot * x.dot * y.nn > y.dot * y.dot * x.nn
    ELSE x.dot < 0

\* PartialOrd::partial_cmp of two results: None when either distance is NaN.
partial_cmp(x, y) ==
    IF IsNaN(x.distance) \/ IsNaN(y.distance) THEN "None"
    ELSE IF Less(x.distance, y.distance) THEN "Less"
    ELSE IF Less(y.distance, x.distance) THEN "Greater"
    ELSE "Equal"

DenseEmbeddingSearchResult(query_embedding, embedded_document) ==
    [embedded_document |-> embedded_document,
     distance |-> cosine_distance(query_embedding, embedded_document.embedding)]

\* BinaryHeap::push(r) sifts r up and compares it with its parent whenever the
\* heap is not empty; Ord::cmp unwraps partial_cmp, so the push panics when
\* the heap holds a NaN distance or r has one.
PushPanics(heap, r) ==
    /\ heap # <<>>
    /\ \/ IsNaN(r.distance)
       \/ \E i \in 1..Len(heap) : IsNaN(heap[i].distance)

IndexPermutations(n) == {p \in [1..n -> 1..n] : \A i, j \in 1..n : i # j => p[i] # p[j]}

\* BinaryHeap::into_sorted_vec: the entries in ascending order of Ord::cmp,
\* entries that compare Equal in any order.
into_sorted_vec(heap) ==
    {[i \in 1..Len(heap) |-> heap[p[i]]] : p \in
        {q \in IndexPermutations(Len(heap)) :
            \A i \in 1..(Len(heap) - 1) :
                partial_cmp(heap[q[i]], heap[q[i + 1]]) \in {"Less", "Equal"}}}

\* truncate that keeps the whole vector.
untruncated(v, k) == v

\* Vec::truncate(k)
truncate(v, k) == SubSeq(v, 1, Min(k, Len(v)))

\* The heap after the loop of dense_embedding_search, one push per document.
PushAll(query_embedding, embedded_documents) ==
    [i \in 1..Len(embedded_documents) |->
        DenseEmbeddingSearchResult(query_embedding, embedded_documents[i])]

\* dense_embedding_search once the query embedding is known: the outcomes
\* it can produce, each [panic, results].
dense_embedding_search(query_embedding, embedded_documents, max_results) ==
    LET heap == PushAll(query_embedding, embedded_documents)
    IN  IF \E i \in 1..Len(heap) : PushPanics(SubSeq(heap, 1, i - 1), heap[i])
        THEN {[panic |-> TRUE, results |-> <<>>]}
        ELSE {[panic |-> FALSE, results |-> truncate(v, max_results)] :
                v \in into_sorted_vec(heap)}

----------------------------------------------------------------------------
\* image_analysis.rs

\* The count of the double loop of detect_temporal_change_in_same_content.
num_exact_pixels(last_image, current_image) ==
    Cardinality({i \in 1..Len(last_image) : last_image[i] = current_image[i]})

\* detect_temporal_change_in_same_content with >= for >.
detect_temporal_change_at_threshold(last_screenshot, current_screenshot) ==
    \/ last_screenshot.image = current_screenshot.image
    \/ num_exact_pixels(last_screenshot.image, current_screenshot.image)
         >= SIMILARITY_THRESHOLD_NUM_PIXELS

detect_temporal_change_in_same_content(last_screenshot, current_screenshot) ==
    \/ last_screenshot.image = current_screenshot.image
    \/ num_exact_pixels(last_screenshot.image, current_screenshot.image)
         > SIMILARITY_THRESHOLD_NUM_PIXELS

\* should_discard_past_screenshot that takes malformed JSON for a verdict.
should_discard_past_screenshot_lenient(reply) ==
    IF reply \in {"transport_error", "no_code_block"} THEN "Err"
    ELSE IF reply = "important_true" THEN "Ok(false)"
    ELSE "Ok(true)"

\* should_discard_past_screenshot, given the reply of the completion request:
\* "Err" for a transport error, a missing code block or malformed JSON,
\* otherwise the negation of the boolean field of the reply.
should_discard_past_screenshot(reply) ==
    IF reply \in {"transport_error", "no_code_block", "bad_json"} THEN "Err"
    ELSE IF reply = "important_true" THEN "Ok(false)"
    ELSE "Ok(true)"

\* is_redundant_screenshot up to its only await: "Ok(true)" and "Ok(false)"
\* are returned without a request, "ask" goes on to
\* should_discard_past_screenshot.
is_redundant_screenshot(last_screenshot, current_screenshot) ==
    IF last_screenshot.image = current_screenshot.image THEN "Ok(true)"
    ELSE IF detect_temporal_change_in_same_content(last_screenshot, current_screenshot)
         THEN "ask"
    ELSE "Ok(false)"

----------------------------------------------------------------------------
\* trajectory.rs: the pure parts of build_messages

\* ScanStep with the budget test off by one (<= for <).
ScanStepBudgetOffByOne(acc, idx, event, has_query) ==
    IF event.kind = "Message"
    THEN [acc EXCEPT !.messages_rev = Append(@, event.message)]
    ELSE IF event.is_redundant THEN acc
    ELSE IF acc.num_explicit_recent_images <= MAX_NUM_EXPLICIT_RECENT_IMAGES_PER_LLM_CALL
    THEN [acc EXCEPT !.messages_rev = Append(@, to_llm_message(event.screenshot)),
                     !.num_explicit_recent_images = @ + 1]
    ELSE IF has_query
    THEN [acc EXCEPT !.retrieval_corpus_screenshot_idxs = Append(@, idx)]
    ELSE acc

\* ScanStep that leaves out the System messages.
ScanStepSkipsSystem(acc, idx, event, has_query) ==
    IF event.kind = "Message"
    THEN IF event.message.role = "System" THEN acc
         ELSE [acc EXCEPT !.messages_rev = Append(@, event.message)]
    ELSE IF event.is_redundant THEN acc
    ELSE IF acc.num_explicit_recent_images < MAX_NUM_EXPLICIT_RECENT_IMAGES_PER_LLM_CALL
    THEN [acc EXCEPT !.messages_rev = Append(@, to_llm_message(event.screenshot)),
                     !.num_explicit_recent_images = @ + 1]
    ELSE IF has_query
    THEN [acc EXCEPT !.retrieval_corpus_screenshot_idxs = Append(@, idx)]
    ELSE acc

\* One iteration of the loop over the reversed, enumerated snapshot: idx is
\* the position counted from the end of the log.
ScanStep(acc, idx, event, has_query) ==
    IF event.kind = "Message"
    THEN [acc EXCEPT !.messages_rev = Append(@, event.message)]
    ELSE IF event.is_redundant THEN acc
    ELSE IF acc.num_explicit_recent_images < MAX_NUM_EXPLICIT_RECENT_IMAGES_PER_LLM_CALL
    THEN [acc EXCEPT !.messages_rev = Append(@, to_llm_message(event.screenshot)),
                     !.num_explicit_recent_images = @ + 1]
    ELSE IF has_query
    THEN [acc EXCEPT !.retrieval_corpus_screenshot_idxs = Append(@, idx)]
    ELSE acc

RECURSIVE ScanFromOldest(_, _, _, _)
\* ScanFrom without the .rev(): the loop starts at the oldest event.
ScanFromOldest(acc, idx, snapshot, has_query) ==
    IF idx >= Len(snapshot) THEN acc
    ELSE ScanFromOldest(ScanStep(acc, idx, snapshot[idx + 1], has_query),
                        idx + 1, snapshot, has_query)

RECURSIVE ScanFrom(_, _, _, _)
ScanFrom(acc, idx, snapshot, has_query) ==
    IF idx >= Len(snapshot) THEN acc
    ELSE ScanFrom(ScanStep(acc, idx, snapshot[Len(snapshot) - idx], has_query),
                  idx + 1, snapshot, has_query)

\* The first loop of build_messages over one clone of the log.
Scan(snapshot, has_query) ==
    ScanFrom([messages_rev |-> <<>>, num_explicit_recent_images |-> 0,
              retrieval_corpus_screenshot_idxs |-> <<>>], 0, snapshot, has_query)

\* The second loop: events[idx] of a second clone of the log, for each
\* recorded idx; text_embedding.as_ref().unwrap() panics on None.
CorpusPanics(idxs, snapshot) ==
    \E i \in 1..Len(idxs) :
        \/ idxs[i] >= Len(snapshot)
        \/ /\ At(snapshot, idxs[i]).kind = "Screenshot"
           /\ At(snapshot, idxs[i]).text_embedding = <<>>

RECURSIVE RetrievalCorpus(_, _)
RetrievalCorpus(idxs, snapshot) ==
    IF idxs = <<>> THEN <<>>
    ELSE LET event == At(snapshot, Head(idxs))
         IN  (IF event.kind = "Screenshot"
              THEN <<[document |-> event.screenshot, embedding |-> event.text_embedding[1]]>>
              ELSE <<>>) \o RetrievalCorpus(Tail(idxs), snapshot)

RECURSIVE InsertAll(_, _)
\* for each document: messages_rev.insert(messages_rev.len() - 1, message)
InsertAll(messages_rev, documents) ==
    IF documents = <<>> THEN messages_rev
    ELSE InsertAll(Insert(messages_rev, Len(messages_rev) - 1, to_llm_message(Head(documents))),
                   Tail(documents))

\* messages_rev.len() - 1 underflows on an empty vector.
InsertPanics(messages_rev, documents) == documents # <<>> /\ messages_rev = <<>>

\* NotSystem that keeps every message.
KeepsSystem(messages) == messages

\* .filter(|message| message.role != Role::System)
RECURSIVE NotSystem(_)
NotSystem(messages) ==
    IF messages = <<>> THEN <<>>
    ELSE (IF Head(messages).role # "System" THEN <<Head(messages)>> ELSE <<>>)
         \o NotSystem(Tail(messages))

----------------------------------------------------------------------------
\* State.

NoScreenshot == [timestamp |-> 0, image |-> <<>>]
NoMessage == Text("User", "")

\* A handle with no call in progress.
Idle ==
    [op |-> "none", pc |-> "done", outcome |-> "none", result |-> <<>>,
     message |-> NoMessage, screenshot |-> NoScreenshot, new_event_idx |-> 0,
     query |-> <<>>, snapshot |-> <<>>, messages_rev |-> <<>>,
     retrieval_corpus_screenshot_idxs |-> <<>>, retrieval_corpus |-> <<>>]

\* A handle whose call has returned (or panicked): its locals are gone.
Returned(call, outcome, result) ==
    [Idle EXCEPT !.op = call.op, !.query = call.query,
                 !.outcome = outcome, !.result = result]

\* A spawned task that has ended.
Ended(task, pc) == [pc |-> pc, new_event_idx |-> task.new_event_idx]

NoSearch ==
    [pc |-> "none", query_embedding |-> <<>>, embedded_documents |-> <<>>,
     max_results |-> 0, next |-> 0, heap |-> <<>>, results |-> <<>>]

\* The number of add_message / add_screenshot calls that may still push.
Pushing == Cardinality({h \in DOMAIN calls : calls[h].pc \in {"dedup", "push"}})

\* Trajectory::new(discard_redundant_screenshots)
Init ==
    /\ discard_redundant_screenshots \in BOOLEAN
    /\ events = <<>>
    /\ lock = 0
    /\ calls = [h \in Handles |-> Idle]
    /\ redundancy = <<>>
    /\ enrichment = <<>>
    /\ clock = 0
    /\ search = NoSearch

----------------------------------------------------------------------------
\* Calls on a handle.  A step that locks the events mutex waits until it is
\* free; the guard is a temporary and is dropped within the step.

\* add_message(message) is called.
AddMessageCall(h, message) ==
    /\ calls[h].pc = "done"
    /\ Len(events) + Pushing < MaxEvents
    /\ calls' = [calls EXCEPT ![h] = [Idle EXCEPT !.op = "add_message", !.pc = "push",
                                                  !.message = message]]
    /\ UNCHANGED <<discard_redundant_screenshots, events, lock, redundancy, enrichment,
                   clock, search>>

\* add_screenshot(screenshot) is called with a fresh capture.
AddScreenshotCall(h, image) ==
    /\ calls[h].pc = "done"
    /\ Len(events) + Pushing < MaxEvents
    /\ clock < MaxClock
    /\ clock' = clock + 1
    /\ calls' = [calls EXCEPT ![h] =
            [Idle EXCEPT !.op = "add_screenshot",
                         !.pc = IF discard_redundant_screenshots THEN "dedup" ELSE "push",
                         !.screenshot = [timestamp |-> clock + 1, image |-> image]]]
    /\ UNCHANGED <<discard_redundant_screenshots, events, lock, redundancy, enrichment, search>>

\* Dedup that never returns early.
DedupNeverDrops(h) ==
    /\ calls[h].pc = "dedup"
    /\ lock = 0
    /\ calls' = [calls EXCEPT ![h] = [calls[h] EXCEPT !.pc = "push"]]
    /\ UNCHANGED <<discard_redundant_screenshots, events, lock, redundancy, enrichment,
                   clock, search>>

\* Dedup that, when it drops the capture, stores the new capture in the last
\* event in the place of the old one.
DedupDropRefreshesLast(h) ==
    /\ calls[h].pc = "dedup"
    /\ lock = 0
    /\ LET same == /\ events # <<>>
                   /\ events[Len(events)].kind = "Screenshot"
                   /\ events[Len(events)].screenshot.image = calls[h].screenshot.image
       IN  /\ calls' = [calls EXCEPT ![h] =
                    IF same THEN Returned(calls[h], "dropped", <<>>)
                    ELSE [calls[h] EXCEPT !.pc = "push"]]
           /\ events' = IF same
                        THEN [events EXCEPT ![Len(events)].screenshot = calls[h].screenshot]
                        ELSE events
    /\ UNCHANGED <<discard_redundant_screenshots, lock, redundancy, enrichment,
                   clock, search>>

\* add_screenshot, lines 75-90: the last event, if it is a screenshot with the
\* same image, makes the call return.
Dedup(h) ==
    /\ calls[h].pc = "dedup"
    /\ lock = 0
    /\ calls' = [calls EXCEPT ![h] =
            IF /\ events # <<>>
               /\ events[Len(events)].kind = "Screenshot"
               /\ events[Len(events)].screenshot.image = calls[h].screenshot.image
            THEN Returned(calls[h], "dropped", <<>>)
            ELSE [calls[h] EXCEPT !.pc = "push"]]
    /\ UNCHANGED <<discard_redundant_screenshots, events, lock, redundancy, enrichment,
                   clock, search>>

\* Push that stores the new event in the place of the last one.
PushReplacesLast(h) ==
    /\ calls[h].pc = "push"
    /\ lock = 0
    /\ LET event == IF calls[h].op = "add_message" THEN MessageEvent(calls[h].message)
                    ELSE ScreenshotEvent(calls[h].screenshot)
       IN  events' = IF events = <<>> THEN <<event>>
                     ELSE [events EXCEPT ![Len(events)] = event]
    /\ calls' = [calls EXCEPT ![h] =
            IF calls[h].op = "add_message" THEN Returned(calls[h], "ok", <<>>)
            ELSE [calls[h] EXCEPT !.pc = "len"]]
    /\ UNCHANGED <<discard_redundant_screenshots, lock, redundancy, enrichment, clock, search>>

\* Push that stores the new event at the front of the log.
PushAtFront(h) ==
    /\ calls[h].pc = "push"
    /\ lock = 0
    /\ events' = <<IF calls[h].op = "add_message" THEN MessageEvent(calls[h].message)
                   ELSE ScreenshotEvent(calls[h].screenshot)>> \o events
    /\ calls' = [calls EXCEPT ![h] =
            IF calls[h].op = "add_message" THEN Returned(calls[h], "ok", <<>>)
            ELSE [calls[h] EXCEPT !.pc = "len"]]
    /\ UNCHANGED <<discard_redundant_screenshots, lock, redundancy, enrichment, clock, search>>

\* The push of add_message (line 57) and of add_screenshot (lines 92-97).
Push(h) ==
    /\ calls[h].pc = "push"
    /\ lock = 0
    /\ events' = Append(events,
            IF calls[h].op = "add_message" THEN MessageEvent(calls[h].message)
            ELSE ScreenshotEvent(calls[h].screenshot))
    /\ calls' = [calls EXCEPT ![h] =
            IF calls[h].op = "add_message" THEN Returned(calls[h], "ok", <<>>)
            ELSE [calls[h] EXCEPT !.pc = "len"]]
    /\ UNCHANGED <<discard_redundant_screenshots, lock, redundancy, enrichment, clock, search>>

\* RecordIndex that spawns the redundancy task whatever the flag says.
RecordIndexAlwaysSpawns(h) ==
    /\ calls[h].pc = "len"
    /\ lock = 0
    /\ calls' = [calls EXCEPT ![h] = [calls[h] EXCEPT !.pc = "scan",
                                                     !.new_event_idx = Len(events) - 1]]
    /\ redundancy' =
            Append(redundancy, [pc |-> "read", new_event_idx |-> Len(events) - 1,
                                screenshot |-> calls[h].screenshot,
                                last_screenshot |-> NoScreenshot])
    /\ UNCHANGED <<discard_redundant_screenshots, events, lock, enrichment, clock, search>>

\* add_screenshot, lines 98-127: new_event_idx = len - 1 under a second lock,
\* then the redundancy task is spawned.
RecordIndex(h) ==
    /\ calls[h].pc = "len"
    /\ lock = 0
    /\ calls' = [calls EXCEPT ![h] = [calls[h] EXCEPT !.pc = "scan",
                                                     !.new_event_idx = Len(events) - 1]]
    /\ redundancy' =
            IF discard_redundant_screenshots
            THEN Append(redundancy, [pc |-> "read", new_event_idx |-> Len(events) - 1,
                                     screenshot |-> calls[h].screenshot,
                                     last_screenshot |-> NoScreenshot])
            ELSE redundancy
    /\ UNCHANGED <<discard_redundant_screenshots, events, lock, enrichment, clock, search>>

\* build_messages(query_for_retrieval) is called.
BuildMessagesCall(h, query) ==
    /\ calls[h].pc = "done"
    /\ calls' = [calls EXCEPT ![h] = [Idle EXCEPT !.op = "build_messages", !.pc = "scan",
                                                  !.query = query]]
    /\ UNCHANGED <<discard_redundant_screenshots, events, lock, redundancy, enrichment,
                   clock, search>>

\* build_messages, lines 170-196: the loop over a clone of the log.  The
\* clone (line 177) stays in the frame for as long as indices recorded from
\* it are waiting to be looked up.
BuildScan(h) ==
    /\ calls[h].pc = "scan"
    /\ lock = 0
    /\ LET acc == Scan(events, calls[h].query # <<>>)
       IN  calls' = [calls EXCEPT ![h] =
                [calls[h] EXCEPT !.pc = "corpus",
                                 !.snapshot =
                                     IF acc.retrieval_corpus_screenshot_idxs # <<>>
                                     THEN events ELSE <<>>,
                                 !.messages_rev = acc.messages_rev,
                                 !.retrieval_corpus_screenshot_idxs =
                                     acc.retrieval_corpus_screenshot_idxs]]
    /\ UNCHANGED <<discard_redundant_screenshots, events, lock, redundancy, enrichment,
                   clock, search>>

\* The end of build_messages (lines 232-233) and, when add_screenshot made the
\* call, the rest of add_screenshot (lines 128-163): the history without
\* System messages goes to a newly spawned enrichment task.
FinishedCalls(h, messages_rev) ==
    [calls EXCEPT ![h] =
        IF calls[h].op = "build_messages"
        THEN Returned(calls[h], "ok", Reverse(messages_rev))
        ELSE Returned(calls[h], "ok", <<>>)]

\* FinishedEnrichment that runs the enrichment to its end before returning.
FinishedEnrichmentAwaited(h, messages_rev) ==
    IF calls[h].op = "build_messages" THEN enrichment
    ELSE Append(enrichment, [pc |-> "done", new_event_idx |-> calls[h].new_event_idx])

FinishedEnrichment(h, messages_rev) ==
    IF calls[h].op = "build_messages" THEN enrichment
    ELSE Append(enrichment,
            [pc |-> "describe", new_event_idx |-> calls[h].new_event_idx,
             screenshot |-> calls[h].screenshot,
             conversation_history |-> NotSystem(Reverse(messages_rev)),
             text_description |-> <<>>])

\* build_messages, lines 197-231 up to the await of the search: the corpus
\* is read from a second clone of the log.
BuildCorpus(h) ==
    /\ calls[h].pc = "corpus"
    /\ lock = 0
    /\ LET call == calls[h]
           idxs == call.retrieval_corpus_screenshot_idxs
           corpus == RetrievalCorpus(idxs, events)
           documents == [i \in 1..Len(corpus) |-> corpus[i].document]
       IN  IF CorpusPanics(idxs, events)
           THEN /\ calls' = [calls EXCEPT ![h] = Returned(call, "panic", <<>>)]
                /\ enrichment' = enrichment
           ELSE IF call.query = <<>>
           THEN /\ calls' = FinishedCalls(h, call.messages_rev)
                /\ enrichment' = FinishedEnrichment(h, call.messages_rev)
           ELSE IF Len(corpus) > MAX_NUM_RETRIEVED_IMAGES_PER_LLM_CALL
           THEN /\ calls' = [calls EXCEPT ![h] = [call EXCEPT !.pc = "search",
                                                             !.retrieval_corpus = corpus]]
                /\ enrichment' = enrichment
           ELSE IF InsertPanics(call.messages_rev, documents)
           THEN /\ calls' = [calls EXCEPT ![h] = Returned(call, "panic", <<>>)]
                /\ enrichment' = enrichment
           ELSE /\ calls' = FinishedCalls(h, InsertAll(call.messages_rev, documents))
                /\ enrichment' = FinishedEnrichment(h, InsertAll(call.messages_rev, documents))
    /\ UNCHANGED <<discard_redundant_screenshots, events, lock, redundancy, clock, search>>

\* build_messages, lines 209-224: the embedding request of
\* dense_embedding_search answers (reply = <<v>>) or fails (reply = <<>>, and
\* search.rs:48 unwraps the error); the selected images are spliced in.
BuildSearch(h, reply) ==
    /\ calls[h].pc = "search"
    /\ LET call == calls[h]
       IN  IF reply = <<>>
           THEN calls' = [calls EXCEPT ![h] = Returned(call, "panic", <<>>)]
           ELSE \E found \in dense_embedding_search(reply[1], call.retrieval_corpus,
                                                    MAX_NUM_RETRIEVED_IMAGES_PER_LLM_CALL) :
                    LET documents == [i \in 1..Len(found.results) |->
                                         found.results[i].embedded_document.document]
                    IN  calls' =
                            IF found.panic \/ InsertPanics(call.messages_rev, documents)
                            THEN [calls EXCEPT ![h] = Returned(call, "panic", <<>>)]
                            ELSE FinishedCalls(h, InsertAll(call.messages_rev, documents))
    /\ UNCHANGED <<discard_redundant_screenshots, events, lock, redundancy, enrichment,
                   clock, search>>

----------------------------------------------------------------------------
\* The redundancy task of add_screenshot, lines 102-126.

\* Lines 103-110 up to the await of the model: events.get(new_event_idx - 1).
\* For new_event_idx = 0 the subtraction overflows: a build with overflow
\* checks panics, one without wraps and get() returns None.
RedundancyRead(t) ==
    /\ redundancy[t].pc = "read"
    /\ lock = 0
    /\ LET task == redundancy[t]
           idx == task.new_event_idx
       IN  IF idx = 0
           THEN \E pc \in {"panic", "done"} :
                    redundancy' = [redundancy EXCEPT ![t] = Ended(task, pc)]
           ELSE IF At(events, idx - 1).kind # "Screenshot"
           THEN redundancy' = [redundancy EXCEPT ![t] = Ended(task, "done")]
           ELSE LET last_screenshot == At(events, idx - 1).screenshot
                    verdict == is_redundant_screenshot(last_screenshot, task.screenshot)
                IN  redundancy' = [redundancy EXCEPT ![t] =
                        IF verdict = "Ok(false)" THEN Ended(task, "done")
                        ELSE [task EXCEPT !.last_screenshot = last_screenshot,
                                          !.pc = IF verdict = "ask" THEN "model" ELSE "write"]]
    /\ UNCHANGED <<discard_redundant_screenshots, events, lock, calls, enrichment, clock, search>>

\* RedundancyModel that, on an error, goes back to read the log and ask again.
RedundancyModelAsksAgain(t, reply) ==
    /\ redundancy[t].pc = "model"
    /\ redundancy' = [redundancy EXCEPT ![t] =
            IF should_discard_past_screenshot(reply) = "Ok(true)"
            THEN [redundancy[t] EXCEPT !.pc = "write"]
            ELSE IF should_discard_past_screenshot(reply) = "Err"
            THEN [redundancy[t] EXCEPT !.pc = "read"]
            ELSE Ended(redundancy[t], "done")]
    /\ UNCHANGED <<discard_redundant_screenshots, events, lock, calls, enrichment, clock, search>>

\* Lines 110-118: the completion request answers; an error is printed as a
\* warning and counts as false (the task then ends, "warned").
RedundancyModel(t, reply) ==
    /\ redundancy[t].pc = "model"
    /\ redundancy' = [redundancy EXCEPT ![t] =
            IF should_discard_past_screenshot(reply) = "Ok(true)"
            THEN [redundancy[t] EXCEPT !.pc = "write"]
            ELSE IF should_discard_past_screenshot(reply) = "Err"
            THEN Ended(redundancy[t], "warned")
            ELSE Ended(redundancy[t], "done")]
    /\ UNCHANGED <<discard_redundant_screenshots, events, lock, calls, enrichment, clock, search>>

\* The flag written on a "discard previous" verdict: line 121 indexes the
\* log with new_event_idx.
DiscardedIndex(task) == task.new_event_idx

\* Lines 119-125.
RedundancyWrite(t) ==
    /\ redundancy[t].pc = "write"
    /\ lock = 0
    /\ LET idx == DiscardedIndex(redundancy[t])
       IN  events' = IF At(events, idx).kind = "Screenshot"
                     THEN [events EXCEPT ![idx + 1].is_redundant = TRUE]
                     ELSE events
    /\ redundancy' = [redundancy EXCEPT ![t] = Ended(redundancy[t], "done")]
    /\ UNCHANGED <<discard_redundant_screenshots, lock, calls, enrichment, clock, search>>

----------------------------------------------------------------------------
\* The enrichment task of add_screenshot, lines 135-163.

\* EnrichmentDescribe that goes on with an empty description after a failure.
EnrichmentDescribeGoesOn(t, reply) ==
    /\ enrichment[t].pc = "describe"
    /\ enrichment' = [enrichment EXCEPT ![t] =
            [enrichment[t] EXCEPT !.pc = "acquire",
                                  !.text_description = IF reply = <<>> THEN <<"">> ELSE reply]]
    /\ UNCHANGED <<discard_redundant_screenshots, events, lock, calls, redundancy, clock, search>>

\* Lines 136-138: the description request answers or fails.
EnrichmentDescribe(t, reply) ==
    /\ enrichment[t].pc = "describe"
    /\ enrichment' = [enrichment EXCEPT ![t] =
            IF reply = <<>> THEN Ended(enrichment[t], "done")
            ELSE [enrichment[t] EXCEPT !.pc = "acquire", !.text_description = reply]]
    /\ UNCHANGED <<discard_redundant_screenshots, events, lock, calls, redundancy, clock, search>>

\* EnrichmentAcquire that stores a fresh event with the description in it.
EnrichmentAcquireStoresFreshEvent(t) ==
    /\ enrichment[t].pc = "acquire"
    /\ lock = 0
    /\ lock' = t
    /\ events' = [events EXCEPT ![enrichment[t].new_event_idx + 1] =
                        [ScreenshotEvent(@.screenshot) EXCEPT !.text_description =
                            enrichment[t].text_description]]
    /\ enrichment' = [enrichment EXCEPT ![t].pc = "embed"]
    /\ UNCHANGED <<discard_redundant_screenshots, calls, redundancy, clock, search>>

\* EnrichmentAcquire that takes the guard and leaves the description to the
\* step that stores the embedding.
EnrichmentAcquireDefersWrite(t) ==
    /\ enrichment[t].pc = "acquire"
    /\ lock = 0
    /\ lock' = t
    /\ enrichment' = [enrichment EXCEPT ![t].pc = "embed"]
    /\ UNCHANGED <<discard_redundant_screenshots, events, calls, redundancy, clock, search>>

\* Lines 140-144: the guard is bound to a variable of the Ok arm, the
\* description is written, and the embedding is requested.
EnrichmentAcquire(t) ==
    /\ enrichment[t].pc = "acquire"
    /\ lock = 0
    /\ lock' = t
    /\ LET idx == enrichment[t].new_event_idx
       IN  events' = IF At(events, idx).kind = "Screenshot"
                     THEN [events EXCEPT ![idx + 1].text_description =
                                enrichment[t].text_description]
                     ELSE events
    /\ enrichment' = [enrichment EXCEPT ![t].pc = "embed"]
    /\ UNCHANGED <<discard_redundant_screenshots, calls, redundancy, clock, search>>

\* EnrichmentEmbed that stores the description again, with the embedding
\* request's outcome appended to it.
EnrichmentEmbedRewritesDescription(t, reply) ==
    /\ enrichment[t].pc = "embed"
    /\ lock = t
    /\ lock' = 0
    /\ events' = [events EXCEPT ![enrichment[t].new_event_idx + 1] =
                    [@ EXCEPT !.text_description = <<"description", Len(reply)>>,
                              !.text_embedding = reply]]
    /\ enrichment' = [enrichment EXCEPT ![t] = Ended(enrichment[t], "done")]
    /\ UNCHANGED <<discard_redundant_screenshots, calls, redundancy, clock, search>>

\* EnrichmentEmbed that ends without dropping the guard.
EnrichmentEmbedKeepsGuard(t, reply) ==
    /\ enrichment[t].pc = "embed"
    /\ lock = t
    /\ LET idx == enrichment[t].new_event_idx
       IN  events' = IF reply # <<>> /\ At(events, idx).kind = "Screenshot"
                     THEN [events EXCEPT ![idx + 1].text_embedding = reply]
                     ELSE events
    /\ enrichment' = [enrichment EXCEPT ![t] = Ended(enrichment[t], "done")]
    /\ UNCHANGED <<discard_redundant_screenshots, lock, calls, redundancy, clock, search>>

\* Lines 144-155: the embedding request answers (reply = <<v>>, written to
\* the event) or fails (reply = <<>>); the guard is dropped with the arm.
EnrichmentEmbed(t, reply) ==
    /\ enrichment[t].pc = "embed"
    /\ lock = t
    /\ lock' = 0
    /\ LET idx == enrichment[t].new_event_idx
       IN  events' = IF reply # <<>> /\ At(events, idx).kind = "Screenshot"
                     THEN [events EXCEPT ![idx + 1].text_embedding = reply]
                     ELSE events
    /\ enrichment' = [enrichment EXCEPT ![t] = Ended(enrichment[t], "done")]
    /\ UNCHANGED <<discard_redundant_screenshots, calls, redundancy, clock, search>>

----------------------------------------------------------------------------

Some(S) == {<<x>> : x \in S}
Option(S) == {<<>>} \cup Some(S)

\* One Trajectory behind Arc<Mutex<Trajectory>> (shell.rs:9,
\* autocomplete.rs:90): its callers take turns, and the assistant only ever
\* calls build_messages without a query.
Next ==
    \/ \E h \in DOMAIN calls, role \in Roles, text \in Texts : AddMessageCall(h, Text(role, text))
    \/ \E h \in DOMAIN calls, image \in Images : AddScreenshotCall(h, image)
    \/ \E h \in DOMAIN calls : BuildMessagesCall(h, <<>>)
    \/ \E h \in DOMAIN calls : Dedup(h)
    \/ \E h \in DOMAIN calls : Push(h)
    \/ \E h \in DOMAIN calls : RecordIndex(h)
    \/ \E h \in DOMAIN calls : BuildScan(h)
    \/ \E h \in DOMAIN calls : BuildCorpus(h)
    \/ \E t \in 1..Len(redundancy) : RedundancyRead(t)
    \/ \E t \in 1..Len(redundancy), reply \in ModelReplies : RedundancyModel(t, reply)
    \/ \E t \in 1..Len(redundancy) : RedundancyWrite(t)
    \/ \E t \in 1..Len(enrichment), reply \in Option({"description"}) :
            EnrichmentDescribe(t, reply)
    \/ \E t \in 1..Len(enrichment) : EnrichmentAcquire(t)
    \/ \E t \in 1..Len(enrichment), reply \in Option(DescriptionEmbeddings) :
            EnrichmentEmbed(t, reply)

Spec == Init /\ [][Next]_vars

----------------------------------------------------------------------------
\* The progress the runtime guarantees: a call or task that is ready to run
\* is run, and the events mutex is granted when it is free.  No request to a
\* collaborator is assumed to be answered.
CallProgress(h) == Dedup(h) \/ Push(h) \/ RecordIndex(h) \/ BuildScan(h) \/ BuildCorpus(h)

TaskProgress ==
    \/ \E t \in 1..Len(redundancy) : RedundancyRead(t) \/ RedundancyWrite(t)
    \/ \E t \in 1..Len(enrichment) : EnrichmentAcquire(t)

FairSpec == Spec /\ (\A h \in Handles : WF_vars(CallProgress(h))) /\ WF_vars(TaskProgress)

\* The same, when every request to a collaborator (the redundancy model, the
\* description, the embedding) is answered in the end, with a result or with
\* an error.
CollaboratorProgress ==
    \/ \E t \in 1..Len(redundancy), reply \in ModelReplies : RedundancyModel(t, reply)
    \/ \E t \in 1..Len(enrichment), reply \in Option({"description"}) :
            EnrichmentDescribe(t, reply)
    \/ \E t \in 1..Len(enrichment), reply \in Option(DescriptionEmbeddings) :
            EnrichmentEmbed(t, reply)

ResponsiveSpec == FairSpec /\ WF_vars(CollaboratorProgress)

----------------------------------------------------------------------------
\* The same Trajectory when its holder also calls build_messages with a query
\* (the signature of line 168 allows it).  With at most MaxClock screenshots
\* in the log the corpus never outgrows
\* MAX_NUM_RETRIEVED_IMAGES_PER_LLM_CALL, so the await of the search (lines
\* 209-218) is never reached and the step after it is left out.
QueryNext ==
    \/ \E h \in DOMAIN calls, role \in Roles, text \in Texts : AddMessageCall(h, Text(role, text))
    \/ \E h \in DOMAIN calls, image \in Images : AddScreenshotCall(h, image)
    \/ \E h \in DOMAIN calls, query \in Option(Queries) : BuildMessagesCall(h, query)
    \/ \E h \in DOMAIN calls : Dedup(h)
    \/ \E h \in DOMAIN calls : Push(h)
    \/ \E h \in DOMAIN calls : RecordIndex(h)
    \/ \E h \in DOMAIN calls : BuildScan(h)
    \/ \E h \in DOMAIN calls : BuildCorpus(h)
    \/ \E t \in 1..Len(redundancy) : RedundancyRead(t)
    \/ \E t \in 1..Len(redundancy), reply \in ModelReplies : RedundancyModel(t, reply)
    \/ \E t \in 1..Len(redundancy) : RedundancyWrite(t)
    \/ \E t \in 1..Len(enrichment), reply \in Option({"description"}) :
            EnrichmentDescribe(t, reply)
    \/ \E t \in 1..Len(enrichment) : EnrichmentAcquire(t)
    \/ \E t \in 1..Len(enrichment), reply \in Option(DescriptionEmbeddings) :
            EnrichmentEmbed(t, reply)

QuerySpec == Init /\ [][QueryNext]_vars

----------------------------------------------------------------------------
\* Two clones of one Trajectory (it derives Clone, trajectory.rs:18): each has
\* its own &mut self, and both share the Arc<Mutex<Vec<Event>>>, so their
\* calls interleave at every acquisition of the events mutex.
Clones == {"h1", "h2"}

ConcurrentInit ==
    /\ discard_redundant_screenshots = TRUE
    /\ events = <<>>
    /\ lock = 0
    /\ calls = [h \in Clones |-> Idle]
    /\ redundancy = <<>>
    /\ enrichment = <<>>
    /\ clock = 0
    /\ search = NoSearch

\* The clones append; build_messages runs as the last part of add_screenshot.
ConcurrentNext ==
    \/ \E h \in DOMAIN calls, role \in Roles, text \in Texts : AddMessageCall(h, Text(role, text))
    \/ \E h \in DOMAIN calls, image \in Images : AddScreenshotCall(h, image)
    \/ \E h \in DOMAIN calls : Dedup(h)
    \/ \E h \in DOMAIN calls : Push(h)
    \/ \E h \in DOMAIN calls : RecordIndex(h)
    \/ \E h \in DOMAIN calls : BuildScan(h)
    \/ \E h \in DOMAIN calls : BuildCorpus(h)
    \/ \E t \in 1..Len(redundancy) : RedundancyRead(t)
    \/ \E t \in 1..Len(redundancy), reply \in ModelReplies : RedundancyModel(t, reply)
    \/ \E t \in 1..Len(redundancy) : RedundancyWrite(t)
    \/ \E t \in 1..Len(enrichment), reply \in Option({"description"}) :
            EnrichmentDescribe(t, reply)
    \/ \E t \in 1..Len(enrichment) : EnrichmentAcquire(t)
    \/ \E t \in 1..Len(enrichment), reply \in Option(DescriptionEmbeddings) :
            EnrichmentEmbed(t, reply)

ConcurrentSpec == ConcurrentInit /\ [][ConcurrentNext]_vars

----------------------------------------------------------------------------
\* The trajectory when every request to a collaborator fails: the redundancy
\* model answers with an error and the description request fails.  The steps
\* that follow a successful answer (RedundancyWrite, EnrichmentAcquire,
\* EnrichmentEmbed) are never enabled then, which C18_DegradedMode states.
DegradedNext ==
    \/ \E h \in DOMAIN calls, role \in Roles, text \in Texts : AddMessageCall(h, Text(role, text))
    \/ \E h \in DOMAIN calls, image \in Images : AddScreenshotCall(h, image)
    \/ \E h \in DOMAIN calls : BuildMessagesCall(h, <<>>)
    \/ \E h \in DOMAIN calls : Dedup(h)
    \/ \E h \in DOMAIN calls : Push(h)
    \/ \E h \in DOMAIN calls : RecordIndex(h)
    \/ \E h \in DOMAIN calls : BuildScan(h)
    \/ \E h \in DOMAIN calls : BuildCorpus(h)
    \/ \E t \in 1..Len(redundancy) : RedundancyRead(t)
    \/ \E t \in 1..Len(redundancy), reply \in {"transport_error", "no_code_block", "bad_json"} :
            RedundancyModel(t, reply)
    \/ \E t \in 1..Len(enrichment) : EnrichmentDescribe(t, <<>>)

DegradedSpec == Init /\ [][DegradedNext]_vars

----------------------------------------------------------------------------
\* build_messages on its own, applied to the logs the trajectory can hold
\* once every spawned task has ended.

\* The logs a trajectory with one caller at a time can reach: an embedding
\* is written after its description, a flag is set only on a screenshot
\* that directly follows a screenshot it was judged against, and with
\* discard_redundant_screenshots set no screenshot directly follows one with the same image.
ReachableLog(log, discard) ==
    \A i \in 1..Len(log) :
        log[i].kind = "Screenshot" =>
            /\ log[i].text_embedding # <<>> => log[i].text_description # <<>>
            /\ log[i].is_redundant =>
                /\ discard
                /\ i > 1
                /\ log[i - 1].kind = "Screenshot"
                /\ is_redundant_screenshot(log[i - 1].screenshot, log[i].screenshot)
                       # "Ok(false)"
            /\ (discard /\ i > 1 /\ log[i - 1].kind = "Screenshot") =>
                    log[i - 1].screenshot.image # log[i].screenshot.image
            /\ \A j \in 1..(i - 1) :
                    log[j].kind = "Screenshot" =>
                        log[j].screenshot.timestamp < log[i].screenshot.timestamp

BuildImage(i) == IF i % 2 = 1 THEN <<0, 0>> ELSE <<0, 1>>

BuildEvents(i) ==
    {MessageEvent(Text(role, text)) : role \in Roles, text \in Texts}
    \cup {[ScreenshotEvent([timestamp |-> i, image |-> BuildImage(i)])
              EXCEPT !.is_redundant = r, !.text_description = d[1], !.text_embedding = d[2]] :
            r \in BOOLEAN,
            d \in {<<<<>>, <<>>>>, <<<<"description">>, <<>>>>}
                  \cup {<<<<"description">>, <<v>>>> : v \in Embeddings}}

RECURSIVE BuildLogsOfLen(_, _)
BuildLogsOfLen(n, discard) ==
    IF n = 0 THEN {<<>>}
    ELSE {log \in {Append(shorter, event) :
                      shorter \in BuildLogsOfLen(n - 1, discard), event \in BuildEvents(n)} :
            ReachableLog(log, discard)}

BuildLogs(discard) == UNION {BuildLogsOfLen(n, discard) : n \in 0..MaxBuildLog}

RECURSIVE EndedTasks(_, _)
\* The ended tasks of the screenshots of log, from event i on.
EndedTasks(log, i) ==
    IF i > Len(log) THEN <<>>
    ELSE (IF log[i].kind = "Screenshot"
          THEN <<[pc |-> "done", new_event_idx |-> i - 1]>> ELSE <<>>)
         \o EndedTasks(log, i + 1)

BuildInit ==
    /\ discard_redundant_screenshots \in BOOLEAN
    /\ events \in BuildLogs(discard_redundant_screenshots)
    /\ lock = 0
    /\ calls = [h \in Handles |-> Idle]
    /\ redundancy = IF discard_redundant_screenshots THEN EndedTasks(events, 1) ELSE <<>>
    /\ enrichment = EndedTasks(events, 1)
    /\ clock = Len(events)
    /\ search = NoSearch

BuildNext ==
    \/ \E h \in DOMAIN calls, query \in Option(Queries) : BuildMessagesCall(h, query)
    \/ \E h \in DOMAIN calls : BuildScan(h)
    \/ \E h \in DOMAIN calls : BuildCorpus(h)
    \/ \E h \in DOMAIN calls, reply \in Option(Embeddings) : BuildSearch(h, reply)

BuildSpec == BuildInit /\ [][BuildNext]_vars

----------------------------------------------------------------------------
\* dense_embedding_search on its own, one step per await and per push.

SearchDocuments(n) ==
    {docs \in [1..n -> [embedding : SearchEmbeddings, document : 1..n]] :
        \A i \in 1..n : docs[i].document = i}

SearchInit ==
    /\ discard_redundant_screenshots = FALSE
    /\ events = <<>>
    /\ lock = 0
    /\ calls = [h \in Handles |-> Idle]
    /\ redundancy = <<>>
    /\ enrichment = <<>>
    /\ clock = 0
    /\ \E n \in 0..MaxDocuments : \E docs \in SearchDocuments(n), k \in 0..MaxResults :
            search = [NoSearch EXCEPT !.pc = "embed", !.embedded_documents = docs,
                                      !.max_results = k]

\* search.rs:48-49: the embedding request for the query answers, or fails and
\* the error is unwrapped.
SearchEmbed(reply) ==
    /\ search.pc = "embed"
    /\ search' = IF reply = <<>> THEN [search EXCEPT !.pc = "panic"]
                 ELSE [search EXCEPT !.pc = "push", !.query_embedding = reply[1]]
    /\ UNCHANGED <<discard_redundant_screenshots, events, lock, calls, redundancy,
                   enrichment, clock>>

\* search.rs:52-58: one iteration of the loop.
SearchPush ==
    /\ search.pc = "push"
    /\ search.next < Len(search.embedded_documents)
    /\ LET r == DenseEmbeddingSearchResult(search.query_embedding,
                                           At(search.embedded_documents, search.next))
       IN  search' = IF PushPanics(search.heap, r) THEN [search EXCEPT !.pc = "panic"]
                     ELSE [search EXCEPT !.heap = Append(@, r), !.next = @ + 1]
    /\ UNCHANGED <<discard_redundant_screenshots, events, lock, calls, redundancy,
                   enrichment, clock>>

\* search.rs:59-61
SearchSort ==
    /\ search.pc = "push"
    /\ search.next = Len(search.embedded_documents)
    /\ \E v \in into_sorted_vec(search.heap) :
            search' = [search EXCEPT !.pc = "done",
                                     !.results = truncate(v, search.max_results)]
    /\ UNCHANGED <<discard_redundant_screenshots, events, lock, calls, redundancy,
                   enrichment, clock>>

SearchNext ==
    \/ \E reply \in Option(SearchEmbeddings) : SearchEmbed(reply)
    \/ SearchPush
    \/ SearchSort

SearchSpec == SearchInit /\ [][SearchNext]_vars

----------------------------------------------------------------------------
\* Vocabulary of the properties.

\* The log of the trajectory always has the shape BuildInit draws from.
LogIsReachable == ReachableLog(events, discard_redundant_screenshots)

\* The positions (1-based) of the kept screenshot events of a log.
Kept(log) == {i \in 1..Len(log) : log[i].kind = "Screenshot" /\ ~log[i].is_redundant}

\* The recency window: the recency_budget most recent kept screenshots.
RecencyWindow(log) ==
    {i \in Kept(log) :
        Cardinality({j \in Kept(log) : j > i}) < MAX_NUM_EXPLICIT_RECENT_IMAGES_PER_LLM_CALL}

\* The kept screenshots older than the recency window, and those of them
\* that are retrieval candidates.
Overflow(log) == Kept(log) \ RecencyWindow(log)
OverflowPool(log) == {i \in Overflow(log) : log[i].text_embedding # <<>>}

RECURSIVE ChronologicalFrom(_, _)
ChronologicalFrom(log, i) ==
    IF i > Len(log) THEN <<>>
    ELSE (IF log[i].kind = "Message" THEN <<log[i].message>>
          ELSE IF i \in RecencyWindow(log) THEN <<to_llm_message(log[i].screenshot)>>
          ELSE <<>>) \o ChronologicalFrom(log, i + 1)

\* The messages and the recency-window images of a log, in append order.
Chronological(log) == ChronologicalFrom(log, 1)

ImagesOf(log, positions) == {to_llm_message(log[i].screenshot) : i \in positions}

Count(messages, m) == Cardinality({i \in 1..Len(messages) : messages[i] = m})

NumImages(messages) == Cardinality({i \in 1..Len(messages) : IsImage(messages[i])})

\* A build_messages call on handle h has returned a message sequence.
Built(h) ==
    /\ calls[h].op = "build_messages"
    /\ calls[h].pc = "done"
    /\ calls[h].outcome = "ok"

\* The cosine similarity of two vectors, as the pair (dot, nn) for
\* dot / sqrt(nn), and "a is strictly more similar to the query than b".
CosineSimilarity(a, b) == [dot |-> Dot(a, b), nn |-> Dot(a, a) * Dot(b, b)]
MoreSimilar(query_embedding, a, b) ==
    Less(CosineSimilarity(query_embedding, b), CosineSimilarity(query_embedding, a))

----------------------------------------------------------------------------
\* C1. Dedup: an add_screenshot call whose screenshot is pixel-identical to
\* the last kept screenshot event of the log (the latest screenshot event
\* with is_redundant false, whatever messages follow it) does not grow the
\* log, with redundancy checking enabled or not.
LastKeptImage(log) ==
    IF Kept(log) = {} THEN <<>>
    ELSE log[CHOOSE i \in Kept(log) : \A j \in Kept(log) : j <= i].screenshot.image

C1_DedupNeverGrowsLog ==
    [][\A h \in Handles :
        (/\ calls[h].op = "add_screenshot"
         /\ calls[h].pc = "push"
         /\ calls'[h].pc # "push"
         /\ LastKeptImage(events) = calls[h].screenshot.image)
        => Len(events') = Len(events)]_vars

\* C2. Redundancy verdict target: the redundancy task of screenshot N that
\* got a "discard previous" verdict sets is_redundant on the previous
\* screenshot event, the one N was compared with, and leaves N's flag false.
C2_VerdictMarksPrevious ==
    [][\A t \in 1..Len(redundancy) :
        (redundancy[t].pc = "write" /\ redundancy'[t].pc = "done")
        => /\ At(events', redundancy[t].new_event_idx - 1).is_redundant
           /\ ~At(events', redundancy[t].new_event_idx).is_redundant]_vars

\* C3. Lock scope: no task holds the events mutex while it awaits a
\* collaborator (the description, the embedding, the redundancy model).
C3_NoLockAcrossAwait ==
    \A t \in 1..Len(enrichment) :
        enrichment[t].pc \in {"describe", "embed"} => lock # t

\* C4. Non-blocking log: with the runtime's progress guarantees, every
\* add_message, add_screenshot and build_messages(None) call returns, even
\* when a collaborator never answers a background task.
C4_CallsReturn ==
    \A h \in Handles :
        (calls[h].pc # "done" /\ calls[h].query = <<>>) ~> (calls[h].pc = "done")

\* C5. Retrieval splice position: when build_messages with a query splices
\* in screenshots of the overflow pool, the spliced image messages sit
\* immediately before the final message of the result, and the other
\* messages are the messages and recency-window images in append order.
C5_SpliceBeforeFinal ==
    \A h \in Handles :
        (Built(h) /\ calls[h].query # <<>> /\ OverflowPool(events) # {}
                  /\ Len(calls[h].result) > Len(Chronological(events)))
        => LET out == calls[h].result
               chron == Chronological(events)
           IN  /\ SubSeq(out, 1, Len(chron) - 1) = SubSeq(chron, 1, Len(chron) - 1)
               /\ out[Len(out)] = chron[Len(chron)]
               /\ \A i \in Len(chron)..(Len(out) - 1) : IsImage(out[i])

\* C6. Retrieval candidate rule: with a query, build_messages reads the
\* corpus without crashing whatever derived fields are still empty, and the
\* result has no image of an overflow screenshot whose embedding is empty.
C6_EmptyFieldsTolerated ==
    [][\A h \in Handles :
        (calls[h].op = "build_messages" /\ calls[h].pc = "corpus" /\ calls[h].query # <<>>
            /\ calls'[h].pc # "corpus")
        => /\ calls'[h].outcome # "panic"
           /\ calls'[h].pc = "done" =>
                \A i \in Overflow(events) \ OverflowPool(events) :
                    Count(calls'[h].result, to_llm_message(events[i].screenshot)) = 0]_vars

\* C7. Overflow pool fits: with a query and at most retrieval_budget
\* candidates, the images of the result are those of the recency window and
\* of every candidate, each exactly once.
C7_PoolFitsAllIncluded ==
    \A h \in Handles :
        (Built(h) /\ calls[h].query # <<>>
            /\ Cardinality(OverflowPool(events)) <= MAX_NUM_RETRIEVED_IMAGES_PER_LLM_CALL)
        => LET out == calls[h].result
               expected == ImagesOf(events, RecencyWindow(events) \cup OverflowPool(events))
           IN  /\ \A m \in expected : Count(out, m) = 1
               /\ \A i \in 1..Len(out) : IsImage(out[i]) => out[i] \in expected

\* C8. top_k selection: with more than k candidates, no candidate left out
\* is strictly more similar to the query than a candidate returned.
ReturnedDocuments(results) == {results[i].embedded_document : i \in 1..Len(results)}

C8_TopKMostSimilar ==
    (search.pc = "done" /\ Len(search.embedded_documents) > search.max_results)
    => \A i \in 1..Len(search.embedded_documents) :
           search.embedded_documents[i] \notin ReturnedDocuments(search.results)
           => \A r \in ReturnedDocuments(search.results) :
                  ~MoreSimilar(search.query_embedding,
                               search.embedded_documents[i].embedding, r.embedding)

\* C9. top_k ordering and length: the search returns min(k, n) results,
\* most similar first.
C9_TopKOrderedMostSimilarFirst ==
    search.pc = "done"
    => /\ Len(search.results) = Min(search.max_results, Len(search.embedded_documents))
       /\ \A i, j \in 1..Len(search.results) :
              i < j => ~MoreSimilar(search.query_embedding,
                                    search.results[j].embedded_document.embedding,
                                    search.results[i].embedded_document.embedding)

\* C10. Budget respect: build_messages without a query on a log with more
\* than recency_budget kept screenshots returns exactly recency_budget
\* image messages.
C10_BudgetRespected ==
    \A h \in Handles :
        (Built(h) /\ calls[h].query = <<>>
            /\ Cardinality(Kept(events)) > MAX_NUM_EXPLICIT_RECENT_IMAGES_PER_LLM_CALL)
        => NumImages(calls[h].result) = MAX_NUM_EXPLICIT_RECENT_IMAGES_PER_LLM_CALL

C10_Witness ==
    \E h \in Handles :
        /\ Built(h)
        /\ calls[h].query = <<>>
        /\ Cardinality(Kept(events)) > MAX_NUM_EXPLICIT_RECENT_IMAGES_PER_LLM_CALL
        /\ NumImages(calls[h].result) = MAX_NUM_EXPLICIT_RECENT_IMAGES_PER_LLM_CALL
        /\ \E i \in 1..Len(events) : events[i].kind = "Message"

----------------------------------------------------------------------------
\* C11. Recency selection: without a query, the image messages of the result
\* are exactly those of the recency window, the recency_budget most recently
\* appended kept screenshots (all of them when there are fewer), each once.
C11_RecencySelection ==
    \A h \in Handles :
        (Built(h) /\ calls[h].query = <<>>)
        => LET out == calls[h].result
               window == ImagesOf(events, RecencyWindow(events))
           IN  /\ \A m \in window : Count(out, m) = 1
               /\ \A i \in 1..Len(out) : IsImage(out[i]) => out[i] \in window

C11_Witness ==
    \E h \in Handles :
        /\ Built(h)
        /\ calls[h].query = <<>>
        /\ Cardinality(Kept(events)) >= MAX_NUM_EXPLICIT_RECENT_IMAGES_PER_LLM_CALL + 2
        /\ NumImages(calls[h].result) = MAX_NUM_EXPLICIT_RECENT_IMAGES_PER_LLM_CALL
        /\ \A i \in 1..Len(calls[h].result) :
                IsImage(calls[h].result[i])
                => calls[h].result[i] \in ImagesOf(events, RecencyWindow(events))

\* The message each event of a log stands for, in append order.
AsMessages(log) ==
    [i \in 1..Len(log) |->
        IF log[i].kind = "Message" THEN log[i].message ELSE to_llm_message(log[i].screenshot)]

RECURSIVE IsSubsequence(_, _)
IsSubsequence(s, t) ==
    IF s = <<>> THEN TRUE
    ELSE IF t = <<>> THEN FALSE
    ELSE IF Head(s) = Head(t) THEN IsSubsequence(Tail(s), Tail(t))
    ELSE IsSubsequence(s, Tail(t))

\* C12. Order preservation: without a query, the result is a subsequence of
\* the log in append order.
C12_OrderPreserved ==
    \A h \in Handles :
        (Built(h) /\ calls[h].query = <<>>)
        => IsSubsequence(calls[h].result, AsMessages(events))

C12_Witness ==
    \E h \in Handles :
        /\ Built(h)
        /\ calls[h].query = <<>>
        /\ Len(calls[h].result) >= 3
        /\ NumImages(calls[h].result) >= 1
        /\ calls[h].result # Reverse(calls[h].result)
        /\ IsSubsequence(calls[h].result, AsMessages(events))

\* The number of Message events of a log that carry message m.
MessageEvents(log, m) ==
    Cardinality({i \in 1..Len(log) : log[i].kind = "Message" /\ log[i].message = m})

\* C13. Messages always included: with or without a query, every Message
\* event of the log appears exactly once in the result of build_messages.
C13_MessagesAlwaysIncluded ==
    \A h \in Handles :
        Built(h)
        => \A role \in Roles, text \in Texts :
               Count(calls[h].result, Text(role, text)) = MessageEvents(events, Text(role, text))

C13_Witness ==
    \E h \in Handles :
        /\ Built(h)
        /\ calls[h].query # <<>>
        /\ NumImages(calls[h].result) > MAX_NUM_EXPLICIT_RECENT_IMAGES_PER_LLM_CALL
        /\ \E role \in Roles, text \in Texts :
                /\ MessageEvents(events, Text(role, text)) = 2
                /\ Count(calls[h].result, Text(role, text)) = 2

\* C14. Redundant exclusion: with or without a query, no screenshot event
\* whose is_redundant flag is set appears in the result of build_messages.
C14_RedundantExcluded ==
    \A h \in Handles :
        Built(h)
        => \A i \in 1..Len(events) :
               (events[i].kind = "Screenshot" /\ events[i].is_redundant)
               => Count(calls[h].result, to_llm_message(events[i].screenshot)) = 0

\* C15. Redundancy monotonicity: no step of an append or of a background
\* task clears an is_redundant flag that is set.
C15_RedundancyMonotonic ==
    [][\A i \in 1..Len(events) :
        (events[i].kind = "Screenshot" /\ events[i].is_redundant)
        => (Len(events') >= i /\ events'[i].kind = "Screenshot" /\ events'[i].is_redundant)]_vars

C15_Witness ==
    \E i \in 1..Len(events) :
        /\ events[i].kind = "Screenshot"
        /\ events[i].is_redundant
        /\ events[i].text_embedding # <<>>
        /\ Len(events) > i

\* C16. Build error propagation: when the query embedding request of the
\* retrieval engine fails, build_messages returns the typed retrieval error
\* to its caller instead of crashing, and the log is unchanged.
C16_RetrievalErrorPropagates ==
    [][\A h \in Handles :
        BuildSearch(h, <<>>)
        => /\ calls'[h].pc = "done"
           /\ calls'[h].outcome = "Err(RetrievalError)"
           /\ events' = events]_vars

\* The replies for which the redundancy detector returns an error.
ErrorReplies == {"transport_error", "no_code_block", "bad_json"}

\* C17. Fail-open redundancy: when the detector returns an error (transport
\* failure, missing fenced block, malformed JSON), the redundancy task ends
\* without setting a flag on any event, and no call on the trajectory is
\* affected.
C17_FailOpenRedundancy ==
    [][\A t \in 1..Len(redundancy) :
        /\ \A reply \in ErrorReplies :
               RedundancyModel(t, reply)
               => (redundancy'[t].pc = "warned" /\ events' = events /\ calls' = calls)
        /\ redundancy[t].pc = "warned" => redundancy'[t] = redundancy[t]]_vars

C17_Witness ==
    \E t \in 1..Len(redundancy) :
        /\ redundancy[t].pc = "warned"
        /\ \A i \in 1..Len(events) : events[i].kind = "Screenshot" => ~events[i].is_redundant
        /\ \A h \in Handles : calls[h].op = "add_screenshot" /\ calls[h].outcome = "ok"

\* C18. Degraded mode: when every redundancy and enrichment request fails,
\* no event ever has is_redundant set or a derived field filled (no task
\* even reaches a step that writes one), no call crashes, and
\* build_messages(None) returns every message and the images of the
\* min(n, recency_budget) most recent screenshots, in append order.
C18_DegradedMode ==
    /\ \A i \in 1..Len(events) :
           events[i].kind = "Screenshot"
           => /\ ~events[i].is_redundant
              /\ events[i].text_description = <<>>
              /\ events[i].text_embedding = <<>>
    /\ \A t \in 1..Len(redundancy) : redundancy[t].pc # "write"
    /\ \A t \in 1..Len(enrichment) : enrichment[t].pc \notin {"acquire", "embed"}
    /\ \A h \in Handles : calls[h].outcome # "panic"
    /\ \A h \in Handles : Built(h) => calls[h].result = Chronological(events)

C18_Witness ==
    /\ \E t \in 1..Len(redundancy) : redundancy[t].pc = "warned"
    /\ Len(enrichment) > MAX_NUM_EXPLICIT_RECENT_IMAGES_PER_LLM_CALL
    /\ \A t \in 1..Len(enrichment) : enrichment[t].pc = "done"
    /\ \E i \in 1..Len(events) : events[i].kind = "Message"
    /\ \E h \in Handles :
            /\ Built(h)
            /\ calls[h].result = Chronological(events)
            /\ NumImages(calls[h].result) = MAX_NUM_EXPLICIT_RECENT_IMAGES_PER_LLM_CALL

\* The enrichment task spawned by the add_screenshot call that created
\* event i (1-based) takes the step from pc to pc2.
OwnEnrichmentStep(i, pc, pc2) ==
    \E t \in 1..Len(enrichment) :
        /\ enrichment[t].new_event_idx = i - 1
        /\ enrichment[t].pc = pc
        /\ enrichment[t].screenshot = events[i].screenshot
        /\ enrichment'[t].pc = pc2
        /\ \A u \in 1..Len(enrichment) :
               enrichment[u].new_event_idx = i - 1 => u = t

\* C19. Write-once derived fields: text_description and text_embedding of a
\* screenshot event never change once set, and each is set only by a step of
\* the enrichment task spawned by the add_screenshot call that created the
\* event.
C19_WriteOnce ==
    [][\A i \in 1..Len(events) :
        events[i].kind = "Screenshot"
        => /\ events[i].text_description # <<>>
                => events'[i].text_description = events[i].text_description
           /\ events[i].text_embedding # <<>>
                => events'[i].text_embedding = events[i].text_embedding
           /\ events'[i].text_description # events[i].text_description
                => OwnEnrichmentStep(i, "acquire", "embed")
           /\ events'[i].text_embedding # events[i].text_embedding
                => OwnEnrichmentStep(i, "embed", "done")]_vars

C19_Witness ==
    \E i \in 1..Len(events), t \in 1..Len(enrichment) :
        /\ events[i].kind = "Screenshot"
        /\ events[i].text_description # <<>>
        /\ events[i].text_embedding # <<>>
        /\ enrichment[t].new_event_idx = i - 1
        /\ enrichment[t].pc = "done"
        /\ Len(events) > i

\* C20. Enrichment failure semantics: a failed description request ends the
\* task with both fields empty and no embedding request; a failed embedding
\* request ends it with the description set and the embedding empty; an
\* ended task takes no further step and the fields of its event stay as
\* they are.
C20_EnrichmentFailure ==
    [][\A t \in 1..Len(enrichment) :
        LET i == enrichment[t].new_event_idx + 1
        IN  /\ EnrichmentDescribe(t, <<>>)
                => /\ enrichment'[t].pc = "done"
                   /\ events' = events
                   /\ events[i].text_description = <<>>
                   /\ events[i].text_embedding = <<>>
            /\ EnrichmentEmbed(t, <<>>)
                => /\ enrichment'[t].pc = "done"
                   /\ events' = events
                   /\ events[i].text_description # <<>>
                   /\ events[i].text_embedding = <<>>
            /\ enrichment[t].pc = "done"
                => /\ enrichment'[t] = enrichment[t]
                   /\ events'[i].text_description = events[i].text_description
                   /\ events'[i].text_embedding = events[i].text_embedding]_vars

C20_Witness ==
    \E t, u \in 1..Len(enrichment) :
        /\ enrichment[t].pc = "done"
        /\ At(events, enrichment[t].new_event_idx).text_description = <<>>
        /\ At(events, enrichment[t].new_event_idx).text_embedding = <<>>
        /\ enrichment[u].pc = "done"
        /\ At(events, enrichment[u].new_event_idx).text_description # <<>>
        /\ At(events, enrichment[u].new_event_idx).text_embedding = <<>>
        /\ Len(events) = MaxEvents

\* C21. Append-only stable indices: the log never gets shorter and every
\* event keeps its kind and its payload (the message, or the screenshot);
\* only text_description, text_embedding and is_redundant of a screenshot
\* event change.
C21_AppendOnly ==
    [][/\ Len(events') >= Len(events)
       /\ \A i \in 1..Len(events) :
              /\ events'[i].kind = events[i].kind
              /\ events[i].kind = "Message" => events'[i] = events[i]
              /\ events[i].kind = "Screenshot"
                    => events'[i].screenshot = events[i].screenshot]_vars

C21_Witness ==
    /\ Len(events) = MaxEvents
    /\ \E i \in 1..Len(events) :
            /\ events[i].kind = "Screenshot"
            /\ events[i].is_redundant
            /\ events[i].text_description # <<>>
    /\ \E i \in 1..Len(events) : events[i].kind = "Message"

\* C22. Fire-and-forget: add_screenshot returns as soon as it has spawned
\* its enrichment task, which is then still at its first request, and the
\* step that returns does not depend on the redundancy task it spawned
\* before; the witness is a state in which the call has returned and both
\* tasks are still pending.
C22_FireAndForget ==
    [][\A h \in Handles :
        (calls[h].op = "add_screenshot" /\ calls[h].pc = "corpus" /\ calls'[h].pc = "done")
        => /\ calls'[h].outcome = "ok"
           /\ Len(enrichment') = Len(enrichment) + 1
           /\ enrichment'[Len(enrichment')].pc = "describe"
           /\ enrichment'[Len(enrichment')].new_event_idx = calls[h].new_event_idx
           /\ redundancy' = redundancy]_vars

C22_Witness ==
    \E h \in Handles, t \in 1..Len(redundancy), u \in 1..Len(enrichment) :
        /\ calls[h].op = "add_screenshot"
        /\ calls[h].pc = "done"
        /\ calls[h].outcome = "ok"
        /\ redundancy[t].pc = "read"
        /\ enrichment[u].pc = "describe"
        /\ redundancy[t].new_event_idx = enrichment[u].new_event_idx
        /\ redundancy[t].new_event_idx = Len(events) - 1

\* C23. add_message frame: the push of add_message makes the log one longer
\* with the given message as the last event, leaves every other event as it
\* was, spawns no task, and returns.
C23_AddMessageFrame ==
    [][\A h \in Handles :
        (calls[h].op = "add_message" /\ calls[h].pc = "push" /\ calls'[h].pc # "push")
        => /\ Len(events') = Len(events) + 1
           /\ events'[Len(events')] = [kind |-> "Message", message |-> calls[h].message]
           /\ SubSeq(events', 1, Len(events)) = events
           /\ redundancy' = redundancy
           /\ enrichment' = enrichment
           /\ calls'[h].pc = "done"
           /\ calls'[h].outcome = "ok"]_vars

C23_Witness ==
    \E h \in Handles :
        /\ calls[h].op = "add_message"
        /\ calls[h].pc = "done"
        /\ calls[h].outcome = "ok"
        /\ Len(events) >= 2
        /\ events[Len(events)].kind = "Message"
        /\ \E i \in 1..(Len(events) - 1) :
                events[i].kind = "Screenshot" /\ events[i].text_embedding # <<>>

\* C24. Total image bound: with or without a query, the result of
\* build_messages has at most recency_budget images of the recency window
\* and at most retrieval_budget images more, so at most
\* MAX_NUM_IMAGES_PER_LLM_CALL in all.
C24_TotalImageBound ==
    \A h \in Handles :
        Built(h)
        => /\ NumImages(calls[h].result) <= MAX_NUM_IMAGES_PER_LLM_CALL
           /\ Cardinality(RecencyWindow(events)) <= MAX_NUM_EXPLICIT_RECENT_IMAGES_PER_LLM_CALL
           /\ NumImages(calls[h].result) - Cardinality(RecencyWindow(events))
                <= MAX_NUM_RETRIEVED_IMAGES_PER_LLM_CALL

C24_Witness ==
    \E h \in Handles :
        /\ Built(h)
        /\ calls[h].query # <<>>
        /\ Cardinality(OverflowPool(events)) > MAX_NUM_RETRIEVED_IMAGES_PER_LLM_CALL
        /\ NumImages(calls[h].result) = MAX_NUM_IMAGES_PER_LLM_CALL

\* C25. Zero-norm guard: no push of the search crashes, and no entry of the
\* heap has a distance that is NaN (a quotient by a zero norm): a candidate
\* with a zero norm is skipped or the search returns an error.
C25_ZeroNormGuard ==
    [][SearchPush
        => /\ search'.pc # "panic"
           /\ \A i \in 1..Len(search'.heap) : ~IsNaN(search'.heap[i].distance)]_vars

\* C26. Recorded index under concurrent appends: the index that the
\* redundancy task and the enrichment task of a screenshot use is the
\* position of that screenshot's own event, however the appends of the
\* clones interleave.
C26_RecordedIndexIsOwn ==
    /\ \A t \in 1..Len(redundancy) :
           redundancy[t].pc \in {"read", "model", "write"}
           => /\ At(events, redundancy[t].new_event_idx).kind = "Screenshot"
              /\ At(events, redundancy[t].new_event_idx).screenshot = redundancy[t].screenshot
    /\ \A t \in 1..Len(enrichment) :
           enrichment[t].pc \in {"describe", "acquire", "embed"}
           => /\ At(events, enrichment[t].new_event_idx).kind = "Screenshot"
              /\ At(events, enrichment[t].new_event_idx).screenshot = enrichment[t].screenshot

\* C27. Index bounds: every index with which a redundancy task, an
\* enrichment task or build_messages reads or writes the log is within the
\* log (0 <= index < length) when it is used, and no task ends in a panic;
\* this includes the task of a screenshot appended to an empty log.
C27_IndexBounds ==
    /\ \A t \in 1..Len(redundancy) :
           /\ redundancy[t].pc = "read"
                => redundancy[t].new_event_idx - 1 \in 0..(Len(events) - 1)
           /\ redundancy[t].pc = "write"
                => redundancy[t].new_event_idx \in 0..(Len(events) - 1)
           /\ redundancy[t].pc # "panic"
    /\ \A t \in 1..Len(enrichment) :
           enrichment[t].pc \in {"acquire", "embed"}
           => enrichment[t].new_event_idx \in 0..(Len(events) - 1)
    /\ \A h \in Handles :
           calls[h].pc = "corpus"
           => \A k \in 1..Len(calls[h].retrieval_corpus_screenshot_idxs) :
                  calls[h].retrieval_corpus_screenshot_idxs[k] \in 0..(Len(events) - 1)

\* C28. Partial progress visibility: while the embedding request of an
\* enrichment task is in flight, the event has its description and no
\* embedding, and a call that needs the events mutex (a build_messages scan,
\* a push) can take its step and observe the event so.
C28_PartialProgressVisible ==
    \A t \in 1..Len(enrichment), h \in Handles :
        (enrichment[t].pc = "embed" /\ calls[h].pc \in {"dedup", "push", "len", "scan", "corpus"})
        => /\ At(events, enrichment[t].new_event_idx).text_description # <<>>
           /\ At(events, enrichment[t].new_event_idx).text_embedding = <<>>
           /\ ENABLED CallProgress(h)

\* The positions (1-based) of the kept screenshot events that precede the
\* event at index idx (0-based), and the latest of them.
KeptBefore(log, idx) == {i \in Kept(log) : i <= idx}
PreviousKept(log, idx) == CHOOSE i \in KeptBefore(log, idx) : \A j \in KeptBefore(log, idx) : j <= i

\* C29. Comparison target: the redundancy task of a new screenshot runs the
\* detector on the pair (previous kept screenshot, new screenshot) whenever
\* a kept screenshot precedes the new one, also with Message events between
\* the two.
C29_ComparisonTarget ==
    [][\A t \in 1..Len(redundancy) :
        (/\ RedundancyRead(t)
         /\ redundancy[t].new_event_idx >= 1
         /\ KeptBefore(events, redundancy[t].new_event_idx) # {})
        => LET prev == events[PreviousKept(events, redundancy[t].new_event_idx)].screenshot
               verdict == is_redundant_screenshot(prev, redundancy[t].screenshot)
           IN  /\ redundancy'[t].pc = (IF verdict = "ask" THEN "model"
                                       ELSE IF verdict = "Ok(true)" THEN "write" ELSE "done")
               /\ redundancy'[t].pc \in {"model", "write"}
                    => redundancy'[t].last_screenshot = prev]_vars

\* The number of coordinates at which two images have the same colour.
SamePixels(a, b) == Cardinality({i \in 1..Len(a) : a[i] = b[i]})

\* C30. Redundancy detector decision: on a pair (prev, cur) the detector
\* answers true without the model when the images are identical, false
\* without the model when at most SIMILARITY_THRESHOLD_NUM_PIXELS pixels
\* agree, and otherwise consults the model once and answers true exactly
\* when the model says that prev holds no important information that cur
\* lacks.
C30_DetectorDecision ==
    [][\A t \in 1..Len(redundancy) :
        /\ (/\ RedundancyRead(t)
            /\ redundancy[t].new_event_idx >= 1
            /\ At(events, redundancy[t].new_event_idx - 1).kind = "Screenshot")
           => LET prev == At(events, redundancy[t].new_event_idx - 1).screenshot
                  cur == redundancy[t].screenshot
              IN  IF prev.image = cur.image THEN redundancy'[t].pc = "write"
                  ELSE IF SamePixels(prev.image, cur.image) <= SIMILARITY_THRESHOLD_NUM_PIXELS
                  THEN redundancy'[t].pc = "done"
                  ELSE /\ redundancy'[t].pc = "model"
                       /\ redundancy'[t].last_screenshot = prev
        /\ \A reply \in ModelReplies :
               RedundancyModel(t, reply)
               => /\ redundancy'[t].pc # "model"
                  /\ redundancy'[t].pc = "write" <=> reply = "important_false"]_vars

C30_Witness ==
    \E t \in 1..Len(redundancy) :
        /\ redundancy[t].pc = "write"
        /\ redundancy[t].last_screenshot.image = redundancy[t].screenshot.image
        /\ redundancy[t].last_screenshot.timestamp # redundancy[t].screenshot.timestamp

\* C31. Single snapshot: a build_messages call that returns messages after
\* its second loop has looked up indices has computed them from one copy of
\* the log: either the log that the second loop read selects the very
\* messages and indices of the first loop, or the copy that the first loop
\* scanned yields the very corpus of the second loop.
C31_SingleSnapshot ==
    [][\A h \in Handles :
        (/\ calls[h].op = "build_messages"
         /\ calls[h].retrieval_corpus_screenshot_idxs # <<>>
         /\ calls[h].pc = "corpus"
         /\ calls'[h].pc = "done"
         /\ calls'[h].outcome = "ok")
        => LET idxs == calls[h].retrieval_corpus_screenshot_idxs
               acc == Scan(events, calls[h].query # <<>>)
           IN  \/ /\ acc.messages_rev = calls[h].messages_rev
                  /\ acc.retrieval_corpus_screenshot_idxs = idxs
               \/ /\ ~CorpusPanics(idxs, calls[h].snapshot)
                  /\ RetrievalCorpus(idxs, calls[h].snapshot)
                        = RetrievalCorpus(idxs, events)]_vars

\* C32. Silent drop has no side effects: neither the step that starts an
\* add_screenshot call nor the step of the duplicate check that makes it
\* return changes the log, the lock, or the lists of spawned redundancy and
\* enrichment tasks (the collaborators are only ever called by those tasks).
C32_SilentDrop ==
    [][\A h \in Handles :
        /\ (calls[h].pc = "done" /\ calls'[h].pc = "dedup")
           => UNCHANGED <<events, lock, redundancy, enrichment>>
        /\ (calls[h].pc = "dedup" /\ calls'[h].pc = "done")
           => /\ calls'[h].outcome = "dropped"
              /\ UNCHANGED <<events, lock, redundancy, enrichment>>]_vars

C32_Witness ==
    \E h \in Handles :
        /\ calls[h].op = "add_screenshot"
        /\ calls[h].pc = "done"
        /\ calls[h].outcome = "dropped"
        /\ Len(events) = 1
        /\ Len(enrichment) = 1
        /\ Len(redundancy) = 1

\* C33. Enrichment scheduling: the push of add_screenshot appends the event
\* with text_description and text_embedding empty and is_redundant false;
\* the step after it spawns one redundancy task for the event's index when
\* discard_redundant_screenshots is set and none otherwise; the step that
\* returns spawns one enrichment task for that index, with or without the
\* flag; and no other step spawns a task.
C33_EnrichmentScheduling ==
    [][/\ \A h \in Handles :
            calls[h].op = "add_screenshot"
            => /\ (calls[h].pc = "push" /\ calls'[h].pc # "push")
                  => events' = Append(events,
                        [kind |-> "Screenshot", screenshot |-> calls[h].screenshot,
                         text_description |-> <<>>, is_redundant |-> FALSE,
                         text_embedding |-> <<>>])
               /\ (calls[h].pc = "len" /\ calls'[h].pc # "len")
                  => /\ At(events, calls'[h].new_event_idx).screenshot = calls[h].screenshot
                     /\ enrichment' = enrichment
                     /\ IF discard_redundant_screenshots
                        THEN /\ Len(redundancy') = Len(redundancy) + 1
                             /\ redundancy'[Len(redundancy')].new_event_idx
                                    = calls'[h].new_event_idx
                        ELSE redundancy' = redundancy
               /\ (calls[h].pc = "corpus" /\ calls'[h].pc = "done")
                  => /\ Len(enrichment') = Len(enrichment) + 1
                     /\ enrichment'[Len(enrichment')].new_event_idx = calls[h].new_event_idx
                     /\ enrichment'[Len(enrichment')].screenshot = calls[h].screenshot
                     /\ \A t \in 1..Len(enrichment) :
                            enrichment[t].new_event_idx # calls[h].new_event_idx
                     /\ redundancy' = redundancy
       /\ Len(enrichment') # Len(enrichment)
            => \E h \in Handles : /\ calls[h].op = "add_screenshot"
                                  /\ calls[h].pc = "corpus"
                                  /\ calls'[h].pc = "done"
       /\ Len(redundancy') # Len(redundancy)
            => /\ discard_redundant_screenshots
               /\ \E h \in Handles : /\ calls[h].op = "add_screenshot"
                                     /\ calls[h].pc = "len"]_vars

C33_Witness ==
    \E h \in Handles :
        /\ ~discard_redundant_screenshots
        /\ calls[h].op = "add_screenshot"
        /\ calls[h].pc = "done"
        /\ calls[h].outcome = "ok"
        /\ redundancy = <<>>
        /\ Len(enrichment) = 2
        /\ enrichment[2].pc = "describe"
        /\ enrichment[2].new_event_idx = Len(events) - 1
        /\ events[Len(events)] = ScreenshotEvent(enrichment[2].screenshot)

\* C34. Bounded heap: at every step of a search for max_results results the
\* working heap holds at most max_results entries.
C34_BoundedHeap == Len(search.heap) <= search.max_results

\* The screenshot events of a log, by position.
ScreenshotEvents(log) == {i \in 1..Len(log) : log[i].kind = "Screenshot"}

\* C36. Latest screenshot is kept: the screenshot event appended last has
\* is_redundant false, and a build without a query on a log with a
\* screenshot returns the image of that screenshot.
C36_LatestScreenshotKept ==
    /\ \A i \in ScreenshotEvents(events) :
            (\A j \in ScreenshotEvents(events) : j <= i) => ~events[i].is_redundant
    /\ \A h \in Handles :
            (Built(h) /\ calls[h].query = <<>>)
            => \A i \in ScreenshotEvents(events) :
                    (\A j \in ScreenshotEvents(events) : j <= i)
                    => Count(calls[h].result, to_llm_message(events[i].screenshot)) >= 1

\* C37. No duplicate images: with or without a query, the result of
\* build_messages holds the image of each screenshot event at most once.
C37_NoDuplicateImages ==
    \A h \in Handles :
        Built(h)
        => \A i \in ScreenshotEvents(events) :
                Count(calls[h].result, to_llm_message(events[i].screenshot)) <= 1

\* C38. Embedding implies description: a screenshot event with
\* text_embedding set has text_description set.
C38_EmbeddingImpliesDescription ==
    \A i \in ScreenshotEvents(events) :
        events[i].text_embedding # <<>> => events[i].text_description # <<>>

C38_Witness ==
    \E i \in ScreenshotEvents(events), t \in 1..Len(enrichment) :
        /\ events[i].text_embedding # <<>>
        /\ events[i].text_description # <<>>
        /\ enrichment[t].pc = "done"
        /\ enrichment[t].new_event_idx = i - 1
        /\ \E j \in ScreenshotEvents(events) :
                events[j].text_description # <<>> /\ events[j].text_embedding = <<>>

\* The messages of the non-System Message events among the first idx events
\* of a log, in append order.
NonSystemMessageEvent(e) == e.kind = "Message" /\ e.message.role # "System"
MessagesBefore(log, idx) ==
    LET before == SelectSeq(SubSeq(log, 1, idx), NonSystemMessageEvent)
    IN  [i \in 1..Len(before) |-> before[i].message]

\* C35. Enrichment history: the conversation history handed to the
\* enrichment task when add_screenshot returns holds no System message and
\* holds, in append order, every non-System message appended before the
\* screenshot.
C35_EnrichmentHistory ==
    [][\A h \in Handles :
        (calls[h].op = "add_screenshot" /\ calls[h].pc = "corpus" /\ calls'[h].pc = "done")
        => LET history == enrichment'[Len(enrichment')].conversation_history
           IN  /\ Len(enrichment') = Len(enrichment) + 1
               /\ \A i \in 1..Len(history) : history[i].role # "System"
               /\ IsSubsequence(MessagesBefore(events, calls[h].new_event_idx), history)]_vars

C35_Witness ==
    \E t \in 1..Len(enrichment) :
        /\ enrichment[t].pc = "describe"
        /\ enrichment[t].new_event_idx = 2
        /\ events[1].kind = "Message"
        /\ events[1].message.role = "System"
        /\ events[2].kind = "Message"
        /\ events[2].message.role = "Assistant"
        /\ enrichment[t].conversation_history
                = <<events[2].message, to_llm_message(events[3].screenshot)>>

\* A task that has run to its end, and the states in which no call is in
\* progress and in which no task is left and the events mutex is free.
RedundancyEnded(t) == Len(redundancy) >= t /\ redundancy[t].pc \in {"done", "warned", "panic"}
EnrichmentEnded(t) == Len(enrichment) >= t /\ enrichment[t].pc = "done"
ProducersIdle == \A h \in Handles : calls[h].pc = "done"
Quiescent ==
    /\ lock = 0
    /\ \A t \in 1..Len(redundancy) : RedundancyEnded(t)
    /\ \A t \in 1..Len(enrichment) : EnrichmentEnded(t)

\* C39. Deadlock freedom: when every collaborator answers, whoever holds the
\* events mutex is an enrichment task waiting for its embedding (never for
\* a lock), and every call and every task that waits for the mutex gets
\* past that wait.
C39_DeadlockFreedom ==
    /\ [](lock # 0 => /\ lock \in 1..Len(enrichment)
                      /\ enrichment[lock].pc = "embed")
    /\ \A h \in Handles : (calls[h].pc # "done") ~> (calls[h].pc = "done")
    /\ \A t \in 1..MaxClock :
            /\ (Len(redundancy) >= t /\ redundancy[t].pc = "read")
                    ~> (Len(redundancy) >= t /\ redundancy[t].pc # "read")
            /\ (Len(redundancy) >= t /\ redundancy[t].pc = "write")
                    ~> (Len(redundancy) >= t /\ redundancy[t].pc # "write")
            /\ (Len(enrichment) >= t /\ enrichment[t].pc = "acquire")
                    ~> (Len(enrichment) >= t /\ enrichment[t].pc # "acquire")

C39_Witness ==
    \E h \in Handles, t \in 1..Len(redundancy), u \in 1..Len(enrichment) :
        /\ lock = u
        /\ enrichment[u].pc = "embed"
        /\ calls[h].pc = "push"
        /\ redundancy[t].pc = "write"

\* C40. Quiescence: when every collaborator answers, every spawned
\* redundancy and enrichment task runs to its end and the events mutex is
\* released; if the producers stop calling, the log stays quiescent from
\* some point on, and a quiescent log with no call in progress is not
\* changed by any step.
C40_Quiescence ==
    /\ \A t \in 1..MaxClock :
            /\ (Len(redundancy) >= t) ~> RedundancyEnded(t)
            /\ (Len(enrichment) >= t) ~> EnrichmentEnded(t)
    /\ (lock # 0) ~> (lock = 0)
    /\ (<>[]ProducersIdle) => <>[]Quiescent
    /\ [][(Quiescent /\ ProducersIdle) => events' = events]_vars

C40_Witness ==
    /\ Quiescent
    /\ ProducersIdle
    /\ Len(enrichment) = MaxClock
    /\ Len(redundancy) = MaxClock
    /\ \E i \in ScreenshotEvents(events) :
            events[i].is_redundant /\ events[i].text_embedding # <<>>

====
